---- MODULE Spec2Model ----
(***************************************************************************)
(* ComponentJabberd2 (sleekxmpp/componentjabberd2.py): the stream feature  *)
(* registry, the ordered negotiation walk of _handle_stream_features, the  *)
(* connection state reset on 'connected', the 'session_bind' handler and   *)
(* connect(); and the Bind stanza (sleekxmpp/stanza/bind.py).              *)
(*                                                                         *)
(* Feature names are modelled by their rank in lexical order: name 1 sorts *)
(* before name 2, as Python compares the (order, name) tuples.             *)
(***************************************************************************)
EXTENDS Integers, Sequences, FiniteSets, TLC

\* ---------------------------------------------------------------- bounds
\* Feature names 1..NumNames (lexical rank), order values 0..MaxOrder, and at
\* most MaxEntries pairs in the ordering index.
NumNames == 2
MaxOrder == 1
MaxEntries == 2

Names == 1..NumNames
Orders == 0..MaxOrder
\* The callables given to register_feature: opaque values.
Handlers == {"h1"}
\* JIDs the server may bind; Host is the JID's domain part.
JIDs == {"u@a/r", "u@b/r"}
Host(jid) == IF jid = "u@a/r" THEN "a" ELSE "b"
\* The address argument of connect(): the default empty tuple, or (host, port).
default_port == 5347
Addresses == {<<>>, <<"a", default_port>>}

VARIABLES
    stream_feature_handlers,  \* dict name -> <<handler, restart>>
    stream_feature_order,     \* list of <<order, name>>
    features,                 \* self.features
    authenticated, sessionstarted, bound, bindfail,
    boundjid, client_roster,
    session_started_event, expected_server_name,
    conn,                     \* transport: "down" | "up"
    pc,                       \* "idle" | "walk": _handle_stream_features in progress
    announcement,             \* features['features'] of the stanza being walked
    it,                       \* position of the walk's list iterator (1-based)
    invoked,                  \* history: <<order, name, outcome>> of each handler
                              \* call of this generation
    negotiated,               \* history: 'stream_negotiated' events of this generation
    fresh,                    \* history: 'connected' seen and no handler run since
    ret, raised,              \* result / exception of the last call
    call,                     \* history: the last call and its arguments
    xml_attrib, xml_sub,      \* Bind element: XML attributes, sub-element texts
    got, stanza_call          \* Bind element: last get result, last access

regvars == <<stream_feature_handlers, stream_feature_order>>
statevars == <<features, authenticated, sessionstarted, bound, bindfail>>
idvars == <<boundjid, client_roster>>
connvars == <<session_started_event, expected_server_name>>
walkvars == <<pc, announcement, it, invoked, negotiated>>
stanzavars == <<xml_attrib, xml_sub, got, stanza_call>>
vars == <<regvars, statevars, idvars, connvars, conn, walkvars, fresh, ret,
          raised, call, stanzavars>>

\* ------------------------------------------------------- list operations
\* Python's comparison of (order, name) tuples.
KeyLess(a, b) == a[1] < b[1] \/ (a[1] = b[1] /\ a[2] < b[2])
KeyLeq(a, b) == a = b \/ KeyLess(a, b)

RECURSIVE Insert(_, _)
Insert(e, s) ==
    IF s = <<>> THEN <<e>>
    ELSE IF KeyLess(e, Head(s)) THEN <<e>> \o s
    ELSE <<Head(s)>> \o Insert(e, Tail(s))

\* The list left as it is: the sort() call left out.
SortLeftOut(s) == s

\* list.sort(): ascending, by tuple comparison.
RECURSIVE Sort(_)
Sort(s) == IF s = <<>> THEN <<>> ELSE Insert(Head(s), Sort(Tail(s)))

Contains(s, e) == \E i \in 1..Len(s) : s[i] = e

\* list.remove(e): drops the first occurrence (the caller checks Contains).
RECURSIVE Remove(_, _)
Remove(s, e) ==
    IF s = <<>> THEN <<>>
    ELSE IF Head(s) = e THEN Tail(s)
    ELSE <<Head(s)>> \o Remove(Tail(s), e)

Sorted(s) == \A i \in 1..(Len(s) - 1) : KeyLeq(s[i], s[i + 1])

NoCall == [op |-> "none", name |-> 0, order |-> 0, jid |-> "", address |-> <<>>]
Called(op) == [NoCall EXCEPT !.op = op]

\* ----------------------------------------------------------- Bind stanza
\* Bind.interfaces and Bind.sub_interfaces.
Bind_interfaces == {"name", "default", "log", "error"}
\* Bind without its sub_interfaces line: ElementBase's empty default.
Bind_no_sub_interfaces == {}
Bind_sub_interfaces == Bind_interfaces
\* The names a caller may ask for: the interfaces and one that is undeclared.
LogicalNames == Bind_interfaces \cup {"jid"}
\* Texts: "" is what an absent attribute or sub-element reads as.
Texts == {"", "t"}
NoAccess == [op |-> "none", name |-> "", value |-> "", attrib |-> ""]

\* ----------------------------------------------------------------- Init
\* The state __init__ builds, up to the registration of the default plugins.
InitCore ==
    /\ features = {}
    /\ authenticated = FALSE
    /\ sessionstarted = FALSE
    /\ bound = FALSE
    /\ bindfail = FALSE
    /\ boundjid = "u@a/r"
    /\ client_roster = "u@a/r"
    /\ session_started_event = FALSE
    /\ expected_server_name = "none"
    /\ conn = "down"
    /\ pc = "idle"
    /\ announcement = {}
    /\ it = 1
    /\ invoked = <<>>
    /\ negotiated = 0
    /\ fresh = FALSE
    /\ ret = "none"
    /\ raised = "none"
    /\ call = NoCall

\* The Bind element is not in use.
NoStanza ==
    /\ xml_attrib = <<>>
    /\ xml_sub = <<>>
    /\ got = "none"
    /\ stanza_call = NoAccess

\* The registry is empty: the features are registered by Register steps.
Init ==
    /\ InitCore
    /\ NoStanza
    /\ stream_feature_handlers = <<>>
    /\ stream_feature_order = <<>>

\* A call that is not a walk starts: the frame of the last walk (its
\* stanza, its iterator, what it invoked and emitted) is gone.
NoWalk ==
    /\ announcement' = {}
    /\ it' = 1
    /\ invoked' = <<>>
    /\ negotiated' = 0
    /\ UNCHANGED pc

\* ------------------------------------------------------------- registry
\* register_feature(name, handler, restart, order)
register_feature(name, handler, restart, order) ==
    /\ Len(stream_feature_order) < MaxEntries
    /\ stream_feature_handlers' =
           (name :> <<handler, restart>>) @@ stream_feature_handlers
    /\ stream_feature_order' =
           Sort(Append(stream_feature_order, <<order, name>>))
    /\ ret' = "None"
    /\ raised' = "none"
    /\ call' = [Called("register_feature") EXCEPT !.name = name, !.order = order]
    /\ NoWalk
    /\ UNCHANGED <<statevars, idvars, connvars, conn, fresh, stanzavars>>

\* unregister_feature(name, order): the handler entry is deleted first, then
\* list.remove raises ValueError when the pair is not in the list.
unregister_feature(name, order) ==
    /\ stream_feature_handlers' =
           [n \in (DOMAIN stream_feature_handlers) \ {name} |->
               stream_feature_handlers[n]]
    /\ IF Contains(stream_feature_order, <<order, name>>)
       THEN /\ stream_feature_order' =
                   Sort(Remove(stream_feature_order, <<order, name>>))
            /\ ret' = "None"
            /\ raised' = "none"
       ELSE /\ stream_feature_order' = stream_feature_order
            /\ ret' = "none"
            /\ raised' = "ValueError"
    /\ call' = [Called("unregister_feature") EXCEPT !.name = name, !.order = order]
    /\ NoWalk
    /\ UNCHANGED <<statevars, idvars, connvars, conn, fresh, stanzavars>>

\* The callers of register_feature and unregister_feature with no regard
\* for a walk in progress.
Unserialized == TRUE

\* Registration and unregistration are serialized against walks by their
\* callers: they run while no _handle_stream_features call is in progress.
Serialized == pc = "idle"

Register ==
    /\ Serialized
    /\ \E name \in Names, handler \in Handlers, restart \in BOOLEAN,
          order \in Orders :
           register_feature(name, handler, restart, order)

Unregister ==
    /\ Serialized
    /\ \E name \in Names, order \in Orders : unregister_feature(name, order)

\* ------------------------------------------------------ connection state
\* _reset_connection_state with the reset of bindfail left out.
reset_without_bindfail ==
    /\ authenticated' = FALSE
    /\ sessionstarted' = FALSE
    /\ bound' = FALSE
    /\ UNCHANGED bindfail
    /\ features' = {}
    /\ UNCHANGED regvars

\* _reset_connection_state setting the registry up anew as well, as __init__
\* does beside self.features.
reset_clearing_registry ==
    /\ authenticated' = FALSE
    /\ sessionstarted' = FALSE
    /\ bound' = FALSE
    /\ bindfail' = FALSE
    /\ features' = {}
    /\ stream_feature_handlers' = <<>>
    /\ stream_feature_order' = <<>>

\* _reset_connection_state: it writes the flags and the feature set, and
\* nothing of the registry.
reset_connection_state ==
    /\ authenticated' = FALSE
    /\ sessionstarted' = FALSE
    /\ bound' = FALSE
    /\ bindfail' = FALSE
    /\ features' = {}
    /\ UNCHANGED regvars

\* The 'connected' event: its handler, added in __init__, is
\* _reset_connection_state. Event handlers and stanza callbacks are run one
\* at a time, so it does not run inside a walk.
Connected ==
    /\ conn = "down"
    /\ pc = "idle"
    /\ conn' = "up"
    /\ reset_connection_state
    /\ fresh' = TRUE
    /\ ret' = "None"
    /\ raised' = "none"
    /\ call' = Called("connected")
    /\ NoWalk
    /\ UNCHANGED <<idvars, connvars, stanzavars>>

\* The transport's 'disconnected' event: no handler of this class is
\* subscribed to it, and a walk in progress is not told.
Disconnected ==
    /\ conn = "up"
    /\ conn' = "down"
    /\ UNCHANGED <<regvars, statevars, idvars, connvars, walkvars, fresh, ret,
                   raised, call, stanzavars>>

\* self.roster[jid]: the roster node of jid, named by jid.
roster(jid) == jid

\* _handle_session_bind taking the roster of the JID bound before.
handle_session_bind_stale(jid) ==
    /\ client_roster' = roster(boundjid)
    /\ UNCHANGED statevars

\* _handle_session_bind(jid)
handle_session_bind(jid) ==
    /\ client_roster' = roster(jid)
    /\ UNCHANGED statevars

\* The 'session_bind' event, raised once the server has assigned the JID;
\* jid is the same as boundjid.
SessionBind ==
    /\ conn = "up"
    /\ pc = "idle"
    /\ \E jid \in JIDs :
           /\ boundjid' = jid
           /\ handle_session_bind(jid)
           /\ call' = [Called("session_bind") EXCEPT !.jid = jid]
    /\ ret' = "None"
    /\ raised' = "none"
    /\ NoWalk
    /\ UNCHANGED <<regvars, connvars, conn, fresh, stanzavars>>

\* connect(address, ...): address[0] raises IndexError on the empty tuple;
\* otherwise the call is XMLStream.connect's, whose result is returned.
connect(address, result) ==
    /\ session_started_event' = FALSE
    /\ expected_server_name' = Host(boundjid)
    /\ IF Len(address) = 0
       THEN /\ raised' = "IndexError"
            /\ ret' = "none"
       ELSE /\ raised' = "none"
            /\ ret' = result
    /\ call' = [Called("connect") EXCEPT !.address = address]
    /\ NoWalk
    /\ UNCHANGED <<regvars, statevars, idvars, conn, fresh, stanzavars>>

Connect ==
    /\ pc = "idle"
    /\ \E address \in Addresses, result \in {"True", "False"} :
           connect(address, result)

\* ----------------------------------------------------- negotiation walk
\* What a feature handler (a plugin's) may do to the connection state before
\* it returns: nothing, set one of the flags, or add the feature's name to
\* self.features.
Effects == {"none", "authenticated", "sessionstarted", "bound", "bindfail",
            "feature"}
\* Handlers that leave the flags alone.
QuietEffects == {"none"}
Outcomes == {"truthy", "falsy", "raise"}

\* The handler's writes (the session feature also sets
\* session_started_event).
HandlerEffect(name, effect) ==
    /\ authenticated' = (authenticated \/ effect = "authenticated")
    /\ sessionstarted' = (sessionstarted \/ effect = "sessionstarted")
    /\ session_started_event' =
           (session_started_event \/ effect = "sessionstarted")
    /\ bound' = (bound \/ effect = "bound")
    /\ bindfail' = (bindfail \/ effect = "bindfail")
    /\ features' = IF effect = "feature" THEN features \cup {name} ELSE features

\* The Callback 'Stream Features': a features stanza arrives on the stream and
\* _handle_stream_features(features) starts; the stanza opens a stream
\* generation.
FeaturesAnnounced ==
    /\ conn = "up"
    /\ pc = "idle"
    /\ \E a \in SUBSET Names : announcement' = a
    /\ pc' = "walk"
    /\ it' = 1
    /\ invoked' = <<>>
    /\ negotiated' = 0
    /\ ret' = "none"
    /\ raised' = "none"
    /\ call' = Called("handle_stream_features")
    /\ UNCHANGED <<regvars, statevars, idvars, connvars, conn, fresh, stanzavars>>

\* The walk is at an entry of the list.
AtEntry == pc = "walk" /\ it <= Len(stream_feature_order)
CurOrder == stream_feature_order[it][1]
CurName == stream_feature_order[it][2]

\* The walk with the test of the announcement left out.
AnnouncedAlways(name) == TRUE

\* `name in features['features']`
Announced(name) == name \in announcement

\* `if name in features['features']` is false: next entry.
SkipFeature ==
    /\ AtEntry
    /\ ~Announced(CurName)
    /\ it' = it + 1
    /\ UNCHANGED <<regvars, statevars, idvars, connvars, conn, pc, announcement,
                   invoked, negotiated, fresh, ret, raised, call, stanzavars>>

\* `handler, restart = self._stream_feature_handlers[name]` on a name with
\* no entry: KeyError leaves the walk.
LookupFails ==
    /\ AtEntry
    /\ Announced(CurName)
    /\ CurName \notin DOMAIN stream_feature_handlers
    /\ pc' = "idle"
    /\ raised' = "KeyError"
    /\ UNCHANGED <<regvars, statevars, idvars, connvars, conn, announcement, it,
                   invoked, negotiated, fresh, ret, call, stanzavars>>

\* The walk with `if handler(features) and restart` never true.
AfterHandlerNoRestart(outcome, restart) ==
    IF outcome = "raise" THEN "raise" ELSE "continue"

\* The walk with the handler's exception caught and dropped.
AfterHandlerSwallow(outcome, restart) ==
    IF outcome = "truthy" /\ restart THEN "return" ELSE "continue"

\* `if handler(features) and restart: return True`, and an exception of the
\* handler leaves the loop: what the walk does after the handler.
AfterHandler(outcome, restart) ==
    IF outcome = "raise" THEN "raise"
    ELSE IF outcome = "truthy" /\ restart THEN "return"
    ELSE "continue"

\* The handler of the current entry is called.
InvokeHandler(effects) ==
    /\ AtEntry
    /\ Announced(CurName)
    /\ CurName \in DOMAIN stream_feature_handlers
    /\ \E outcome \in Outcomes, effect \in effects :
         LET restart == stream_feature_handlers[CurName][2]
             after == AfterHandler(outcome, restart)
         IN  /\ HandlerEffect(CurName, effect)
             /\ invoked' = Append(invoked, <<CurOrder, CurName, outcome>>)
             /\ fresh' = FALSE
             /\ pc' = IF after = "continue" THEN "walk" ELSE "idle"
             /\ it' = IF after = "continue" THEN it + 1 ELSE it
             /\ ret' = IF after = "return" THEN "True" ELSE ret
             /\ raised' = IF after = "raise" THEN "HandlerError" ELSE raised
    /\ UNCHANGED <<regvars, idvars, expected_server_name, conn, announcement,
                   negotiated, call, stanzavars>>

\* The loop is exhausted: self.event('stream_negotiated'), and the method
\* returns None.
WalkFinished ==
    /\ pc = "walk"
    /\ it > Len(stream_feature_order)
    /\ negotiated' = negotiated + 1
    /\ pc' = "idle"
    /\ ret' = "None"
    /\ UNCHANGED <<regvars, statevars, idvars, connvars, conn, announcement, it,
                   invoked, fresh, raised, call, stanzavars>>

\* ------------------------------------------------------- specifications
\* The registry and the walk: features are registered and unregistered
\* between walks, connections come and go, and the handlers leave the
\* connection flags alone.
Next ==
    \/ Register
    \/ Unregister
    \/ Connected
    \/ Disconnected
    \/ FeaturesAnnounced
    \/ SkipFeature
    \/ LookupFails
    \/ InvokeHandler(QuietEffects)
    \/ WalkFinished

Spec == Init /\ [][Next]_vars

\* The registry as the default plugins of __init__ leave it: a restart
\* feature negotiated first and a feature negotiated after it.
SetupHandlers == (1 :> <<"h1", TRUE>>) @@ (2 :> <<"h1", FALSE>>)
SetupOrder == <<<<0, 1>>, <<1, 2>>>>

StateInit ==
    /\ InitCore
    /\ NoStanza
    /\ stream_feature_handlers = SetupHandlers
    /\ stream_feature_order = SetupOrder

\* The connection state over the connection's life: the registry is set up
\* and stays (so no lookup fails), and the handlers write the flags.
StateNext ==
    \/ Connected
    \/ Disconnected
    \/ SessionBind
    \/ Connect
    \/ FeaturesAnnounced
    \/ SkipFeature
    \/ InvokeHandler(Effects)
    \/ WalkFinished

SpecState == StateInit /\ [][StateNext]_vars

\* ----------------------------------------------------------- Bind stanza
\* ElementBase's routing of a logical name: a name in sub_interfaces is bound
\* to the text of the sub-element of that name, any other interface to the
\* XML attribute.
Binding(name) == IF name \in Bind_sub_interfaces THEN "sub" ELSE "attrib"

\* stanza[name]
stanza_get(name) ==
    /\ IF name \notin Bind_interfaces
       THEN /\ raised' = "UnknownInterfaceError"
            /\ got' = "none"
       ELSE /\ raised' = "none"
            /\ got' = IF Binding(name) = "sub" THEN xml_sub[name]
                      ELSE xml_attrib[name]
    /\ stanza_call' = [op |-> "get", name |-> name, value |-> "",
                       attrib |-> IF name \in Bind_interfaces
                                  THEN xml_attrib[name] ELSE ""]
    /\ UNCHANGED <<xml_attrib, xml_sub>>

\* stanza[name] = value
stanza_set(name, value) ==
    /\ IF name \notin Bind_interfaces
       THEN /\ raised' = "UnknownInterfaceError"
            /\ UNCHANGED <<xml_attrib, xml_sub>>
       ELSE /\ raised' = "none"
            /\ IF Binding(name) = "sub"
               THEN /\ xml_sub' = [xml_sub EXCEPT ![name] = value]
                    /\ UNCHANGED xml_attrib
               ELSE /\ xml_attrib' = [xml_attrib EXCEPT ![name] = value]
                    /\ UNCHANGED xml_sub
    /\ got' = "none"
    /\ stanza_call' = [op |-> "set", name |-> name, value |-> value,
                       attrib |-> IF name \in Bind_interfaces
                                  THEN xml_attrib[name] ELSE ""]

StanzaGet ==
    /\ \E name \in LogicalNames : stanza_get(name)
    /\ UNCHANGED <<regvars, statevars, idvars, connvars, conn, walkvars, fresh,
                   ret, call>>

StanzaSet ==
    /\ \E name \in LogicalNames, value \in Texts : stanza_set(name, value)
    /\ UNCHANGED <<regvars, statevars, idvars, connvars, conn, walkvars, fresh,
                   ret, call>>

\* A Bind element as parsed from the stream: any attributes, any sub-elements.
StanzaInit ==
    /\ InitCore
    /\ stream_feature_handlers = <<>>
    /\ stream_feature_order = <<>>
    /\ xml_attrib \in [Bind_interfaces -> Texts]
    /\ xml_sub \in [Bind_interfaces -> Texts]
    /\ got = "none"
    /\ stanza_call = NoAccess

StanzaNext == StanzaGet \/ StanzaSet

SpecStanza == StanzaInit /\ [][StanzaNext]_vars

\* --------------------------------------------------------------- claims
InvokedIdx == 1..Len(invoked)
\* The entries of the ordering index whose feature the stanza announces.
AnnouncedEntries ==
    {i \in 1..Len(stream_feature_order) :
        stream_feature_order[i][2] \in announcement}
WalkReturned == call.op = "handle_stream_features" /\ pc = "idle"
\* The i-th handler call was of a feature registered with restart=True and
\* returned a truthy value.
RestartTriggered(i) ==
    /\ invoked[i][3] = "truthy"
    /\ invoked[i][2] \in DOMAIN stream_feature_handlers
    /\ stream_feature_handlers[invoked[i][2]][2]

\* C1: the handlers of a walk are invoked in strictly ascending
\* (order, name): each call's key is strictly below the next call's.
C1_StrictlyAscending ==
    \A i \in InvokedIdx : \A j \in InvokedIdx :
        i < j => KeyLess(invoked[i], invoked[j])

\* C2: once a handler of a restart=True feature has returned a truthy value,
\* it is the last handler call of the generation, no handler with a strictly
\* greater key has been invoked, 'stream_negotiated' is not emitted and the
\* walk has returned True.
C2_RestartTruncates ==
    \A i \in InvokedIdx :
        RestartTriggered(i) =>
            /\ i = Len(invoked)
            /\ \A j \in InvokedIdx : ~KeyLess(invoked[i], invoked[j])
            /\ negotiated = 0
            /\ pc = "idle"
            /\ ret = "True"
            /\ raised = "none"

\* C2's case: a restart was triggered with a later announced entry left.
C2_Witness ==
    /\ \E i \in InvokedIdx : RestartTriggered(i)
    /\ \E k \in AnnouncedEntries : k > it

\* C3: a walk that triggered no restart (and in which no handler raised) has
\* emitted 'stream_negotiated' exactly once, after every announced entry's
\* handler has been invoked.
C3_CompletionSignal ==
    (/\ WalkReturned
     /\ \A i \in InvokedIdx : ~RestartTriggered(i) /\ invoked[i][3] # "raise")
    => /\ negotiated = 1
       /\ Len(invoked) = Cardinality(AnnouncedEntries)

\* C4: between a 'connected' event and the first handler call after it, the
\* four flags are False and the feature set is empty.
C4_ResetBeforeNegotiation ==
    fresh =>
        /\ ~authenticated /\ ~sessionstarted /\ ~bound /\ ~bindfail
        /\ features = {}

\* C4's case: the walk of a new connection has started and no handler has
\* run yet, after an earlier generation whose session handler had run (the
\* reset leaves session_started_event as that generation set it).
C4_Witness == fresh /\ pc = "walk" /\ session_started_event

\* C5: an unregister_feature call that fails leaves the handler map and the
\* ordering index as they were.
C5_FailedUnregisterKeepsRegistry ==
    [][(call'.op = "unregister_feature" /\ raised' = "ValueError")
        => UNCHANGED regvars]_vars

\* C6: each feature name occurs in at most one pair of the ordering index.
C6_OnePairPerName ==
    \A i \in 1..Len(stream_feature_order) :
        \A j \in 1..Len(stream_feature_order) :
            i # j => stream_feature_order[i][2] # stream_feature_order[j][2]

\* C7: once a handler has raised, it is the last handler call of the
\* generation, 'stream_negotiated' is not emitted, and the walk has ended
\* with the error and without a return value.
C7_HandlerErrorAborts ==
    \A i \in InvokedIdx :
        invoked[i][3] = "raise" =>
            /\ i = Len(invoked)
            /\ negotiated = 0
            /\ pc = "idle"
            /\ raised = "HandlerError"
            /\ ret = "none"

\* C7's case: a handler raised with a later announced entry left.
C7_Witness ==
    /\ \E i \in InvokedIdx : invoked[i][3] = "raise"
    /\ \E k \in AnnouncedEntries : k > it

\* C8 as stated: after a 'session_bind' event carrying jid, bound is True
\* and client_roster is the roster of jid.
C8_BindSetsBound ==
    call.op = "session_bind" =>
        bound /\ client_roster = roster(call.jid)

\* C8 amended: the 'session_bind' event carrying jid re-homes client_roster
\* to the roster of jid and leaves bound and the other flags as they were.
C8_BindRehomesRoster ==
    [][call'.op = "session_bind"
        => /\ client_roster' = roster(call'.jid)
           /\ UNCHANGED statevars]_vars

\* C8's case: a bind to another JID than the one asked for, bound not set.
C8_Witness ==
    /\ call.op = "session_bind"
    /\ call.jid = "u@b/r"
    /\ client_roster = roster("u@b/r")
    /\ ~bound

\* C9: connect() with the empty default address raises nothing and returns
\* the transport's result.
C9_ConnectWithoutAddress ==
    (call.op = "connect" /\ call.address = <<>>)
    => raised = "none" /\ ret \in {"True", "False"}

\* C10: a get of an interface of Bind reads the sub-element text, and a set
\* writes it and leaves the XML attribute of that name as it was.
C10_SubInterfacePrecedence ==
    /\ (stanza_call.op = "get" /\ stanza_call.name \in Bind_interfaces)
       => got = xml_sub[stanza_call.name]
    /\ (stanza_call.op = "set" /\ stanza_call.name \in Bind_interfaces)
       => /\ xml_sub[stanza_call.name] = stanza_call.value
          /\ xml_attrib[stanza_call.name] = stanza_call.attrib

\* C10's case: a get of a name whose XML attribute exists and differs from
\* the sub-element text.
C10_Witness ==
    /\ stanza_call.op = "get"
    /\ stanza_call.name \in Bind_interfaces
    /\ xml_attrib[stanza_call.name] = "t"
    /\ xml_sub[stanza_call.name] = ""
    /\ got = ""

\* The i-th handler call did not ask for a stop: a restart=True feature whose
\* handler returned a falsy value, or a truthy value of a handler of a
\* restart=False feature.
NonStopping(i) ==
    /\ invoked[i][2] \in DOMAIN stream_feature_handlers
    /\ \/ invoked[i][3] = "falsy" /\ stream_feature_handlers[invoked[i][2]][2]
       \/ invoked[i][3] = "truthy" /\ ~stream_feature_handlers[invoked[i][2]][2]

\* C11: a falsy handler of a restart=True feature and a truthy handler of a
\* restart=False feature do not stop the walk: when no later handler triggers
\* a restart (or raises), every announced entry's handler has been invoked
\* and 'stream_negotiated' emitted by the time the walk has returned.
C11_OnlyRestartStops ==
    \A i \in InvokedIdx :
        (/\ NonStopping(i)
         /\ WalkReturned
         /\ \A j \in InvokedIdx :
                j > i => ~RestartTriggered(j) /\ invoked[j][3] # "raise")
        => /\ negotiated = 1
           /\ Len(invoked) = Cardinality(AnnouncedEntries)

IsAnnouncedEntry(e) == e[2] \in announcement
\* The announced entries among the first k of the ordering index, in order.
AnnouncedUpTo(k) ==
    SelectSeq(SubSeq(stream_feature_order, 1, k), IsAnnouncedEntry)
InvokedKeys == [i \in InvokedIdx |-> <<invoked[i][1], invoked[i][2]>>]

\* C12: every handler invoked is of a feature the stanza announces; the walk
\* passes no announced entry without invoking its handler, so that at a
\* restart the calls made are exactly the announced entries up to the
\* restart's.
C12_OnlyAnnouncedInvoked ==
    /\ \A i \in InvokedIdx : invoked[i][2] \in announcement
    /\ pc = "walk" => InvokedKeys = AnnouncedUpTo(it - 1)
    /\ \A i \in InvokedIdx :
           RestartTriggered(i) => InvokedKeys = AnnouncedUpTo(it)

\* C12's case: a restart at the second entry, the first one registered and
\* not announced.
C12_Witness ==
    /\ \E i \in InvokedIdx : RestartTriggered(i)
    /\ it = 2
    /\ stream_feature_order[1][2] \notin announcement
    /\ stream_feature_order[1][2] \in DOMAIN stream_feature_handlers

\* C13: within one walk no feature name has its handler invoked twice.
C13_NoDuplicateTraversal ==
    \A i \in InvokedIdx : \A j \in InvokedIdx :
        i # j => invoked[i][2] # invoked[j][2]

\* C14: every name of the ordering index has an entry in the handler map.
C14_IndexedNamesHaveHandlers ==
    \A i \in 1..Len(stream_feature_order) :
        stream_feature_order[i][2] \in DOMAIN stream_feature_handlers

\* The JID given to __init__: boundjid before the server has bound any.
ConfiguredJid == "u@a/r"

\* C15: after a 'connected' event (and before the next 'session_bind'),
\* client_roster is not the roster of the JID the server bound in an
\* earlier generation.
C15_NoStaleRoster ==
    (call.op = "connected" /\ boundjid # ConfiguredJid)
    => client_roster # roster(boundjid)

C17_IndexSorted == Sorted(stream_feature_order)

\* C17's case: the pair just registered has been moved before the pair that
\* was there.
C17_Witness ==
    /\ call.op = "register_feature"
    /\ Len(stream_feature_order) > 1
    /\ stream_feature_order[1] = <<call.order, call.name>>
    /\ KeyLess(stream_feature_order[1], stream_feature_order[2])

\* C18: once the connection is down with a walk in progress, no further
\* handler is invoked and 'stream_negotiated' is not emitted.
C18_DisconnectStopsWalk ==
    [][(conn = "down" /\ pc = "walk")
        => (invoked' = invoked /\ negotiated' = negotiated)]_vars

\* C19: the 'connected' reset and the steps of a walk leave the handler map
\* and the ordering index as they were.
C19_RegistryFrame ==
    [][call'.op \in {"connected", "handle_stream_features"}
        => UNCHANGED regvars]_vars

\* C19's case: after the reset of a connection, a walk over a registry of
\* more than one feature has run to its end.
C19_Witness ==
    /\ WalkReturned
    /\ negotiated = 1
    /\ Len(invoked) > 1

====
